---- MODULE Spec2Model ----
(***************************************************************************)
(* A model of generate_api_docs.py: the line-oriented extractor            *)
(* (parse_yaml_basic), the categorizer (get_endpoint_category), filename   *)
(* sanitization (sanitize_filename), the page renderer                     *)
(* (generate_endpoint_mdx), the navigation builder                         *)
(* (generate_navigation_config) and the endpoint and write loops of main.  *)
(*                                                                         *)
(* A Python str is a sequence of one-character strings.  A code point      *)
(* outside ASCII is written by its name, "U+0130".  A dict is a sequence   *)
(* of entries in insertion order; an Operation dict, whose order nothing   *)
(* reads, is a function from its keys.                                     *)
(***************************************************************************)
EXTENDS Integers, Sequences, FiniteSets

VARIABLES
    lines,                  \* parse_yaml_basic: the lines consumed so far
    current_path,           \* parse_yaml_basic: None is the empty string
    current_method,
    current_operation,
    in_tags,
    tags,
    paths,                  \* the Specification: path -> method -> Operation
    pc,                     \* position of the run
    endpoints_by_category,  \* main
    all_categories,
    counter,                \* main: the collision counter after the last loop
    next_item,              \* main: index of the next (path, method) item
    directories,            \* the category directories created
    files,                  \* the files written: file path -> document
    total_files,
    navigation_groups,
    arg_path,               \* arguments and results of the functions called alone
    arg_tags,
    arg_name,
    result,
    result2

vars == <<lines, current_path, current_method, current_operation, in_tags, tags,
          paths, pc, endpoints_by_category, all_categories, counter, next_item,
          directories, files, total_files, navigation_groups, arg_path, arg_tags, arg_name,
          result, result2>>

parse_vars == <<lines, current_path, current_method, current_operation, in_tags,
                tags, paths>>

main_vars == <<endpoints_by_category, all_categories, counter, next_item,
               directories, files, total_files, navigation_groups>>

call_vars == <<arg_path, arg_tags, arg_name, result, result2>>

(***************************************************************************)
(* str methods                                                             *)
(***************************************************************************)
AsciiUpper == <<"A","B","C","D","E","F","G","H","I","J","K","L","M","N","O","P","Q","R","S","T","U","V","W","X","Y","Z">>

AsciiLower == <<"a","b","c","d","e","f","g","h","i","j","k","l","m","n","o","p","q","r","s","t","u","v","w","x","y","z">>

Digits == {"0", "1", "2", "3", "4", "5", "6", "7", "8", "9"}

\* str.strip() with no argument removes white space
Whitespace == {" ", "\t", "\r"}

Range(s) == {s[i] : i \in DOMAIN s}

IndexIn(c, s) == CHOOSE i \in DOMAIN s : s[i] = c

\* str.lower() of one character; U+0130 (capital I with dot above) lower-cases
\* to two code points, i followed by the combining dot above U+0307
LowerChar(c) ==
    IF c \in Range(AsciiUpper) THEN <<AsciiLower[IndexIn(c, AsciiUpper)]>>
    ELSE IF c = "U+0130" THEN <<"i", "U+0307">>
    ELSE <<c>>

\* str.upper() of one character; U+0307 and U+0130 have no other upper case
UpperChar(c) ==
    IF c \in Range(AsciiLower) THEN <<AsciiUpper[IndexIn(c, AsciiLower)]>>
    ELSE <<c>>

RECURSIVE Lower(_)
Lower(s) == IF s = <<>> THEN <<>> ELSE LowerChar(Head(s)) \o Lower(Tail(s))

RECURSIVE Upper(_)
Upper(s) == IF s = <<>> THEN <<>> ELSE UpperChar(Head(s)) \o Upper(Tail(s))

RECURSIVE LStrip(_, _)
LStrip(s, chars) ==
    IF s # <<>> /\ Head(s) \in chars THEN LStrip(Tail(s), chars) ELSE s

RECURSIVE RStrip(_, _)
RStrip(s, chars) ==
    IF s # <<>> /\ s[Len(s)] \in chars
    THEN RStrip(SubSeq(s, 1, Len(s) - 1), chars)
    ELSE s

\* s.strip(chars)
StripChars(s, chars) == RStrip(LStrip(s, chars), chars)

\* s.strip()
Strip(s) == StripChars(s, Whitespace)

\* s.startswith(p)
StartsWith(s, p) == Len(s) >= Len(p) /\ SubSeq(s, 1, Len(p)) = p

\* s.endswith(p)
EndsWith(s, p) == Len(s) >= Len(p) /\ SubSeq(s, Len(s) - Len(p) + 1, Len(s)) = p

\* sub in s
Contains(s, sub) ==
    \E i \in 0..(Len(s) - Len(sub)) : SubSeq(s, i + 1, i + Len(sub)) = sub

\* s[n:]
From(s, n) == SubSeq(s, n + 1, Len(s))

\* s[:-1]
DropLast(s) == SubSeq(s, 1, Len(s) - 1)

\* the non-empty pieces of s between separators: [p for p in s.split(sep) if p],
\* and s.split() for white space
RECURSIVE Pieces(_, _, _)
Pieces(s, seps, cur) ==
    IF s = <<>> THEN (IF cur = <<>> THEN <<>> ELSE <<cur>>)
    ELSE IF Head(s) \in seps
         THEN (IF cur = <<>> THEN <<>> ELSE <<cur>>) \o Pieces(Tail(s), seps, <<>>)
         ELSE Pieces(Tail(s), seps, Append(cur, Head(s)))

RECURSIVE Join(_, _)
Join(parts, sep) ==
    IF parts = <<>> THEN <<>>
    ELSE IF Len(parts) = 1 THEN parts[1]
    ELSE parts[1] \o sep \o Join(Tail(parts), sep)

\* str(n) for n >= 0
RECURSIVE IntToStr(_)
IntToStr(n) ==
    LET d == <<"0","1","2","3","4","5","6","7","8","9">>[(n % 10) + 1]
    IN  IF n < 10 THEN <<d>> ELSE Append(IntToStr(n \div 10), d)

(***************************************************************************)
(* dict                                                                    *)
(***************************************************************************)
EmptyDict == <<>>

\* d.get(key, default) of an Operation
Get(d, key, default) == IF key \in DOMAIN d THEN d[key] ELSE default

\* d[key] = value of an Operation
Put(d, key, value) ==
    [x \in (DOMAIN d) \cup {key} |-> IF x = key THEN value ELSE d[x]]

\* truth value of a str or None
Truthy(s) == s # <<>>

(***************************************************************************)
(* parse_yaml_basic                                                        *)
(***************************************************************************)
None == <<>>

MethodMarkers == {<<"g","e","t",":">>, <<"p","o","s","t",":">>, <<"p","u","t",":">>, <<"d","e","l","e","t","e",":">>, <<"p","a","t","c","h",":">>}

\* line_stripped.startswith('/') and line_stripped.endswith(':')
IsPathMarker(line_stripped) ==
    StartsWith(line_stripped, <<"/">>) /\ EndsWith(line_stripped, <<":">>)

\* the test made on the lower-cased line
IsMethodMarkerAnyCase(line_stripped) == Lower(line_stripped) \in MethodMarkers

\* line_stripped in ['get:', 'post:', 'put:', 'delete:', 'patch:']
IsMethodMarker(line_stripped) == line_stripped \in MethodMarkers

\* methods[method] = operation, the dict in insertion order
MethodsSet(methods, method, operation) ==
    IF \E i \in DOMAIN methods : methods[i].method = method
    THEN [i \in DOMAIN methods |->
            IF methods[i].method = method
            THEN [method |-> method, operation |-> operation]
            ELSE methods[i]]
    ELSE Append(methods, [method |-> method, operation |-> operation])

\* if path not in paths: paths[path] = {}; paths[path][method] = operation
PathsSet(p, path, method, operation) ==
    IF \E i \in DOMAIN p : p[i].path = path
    THEN [i \in DOMAIN p |->
            IF p[i].path = path
            THEN [path |-> path,
                  methods |-> MethodsSet(p[i].methods, method, operation)]
            ELSE p[i]]
    ELSE Append(p, [path |-> path,
                    methods |-> MethodsSet(<<>>, method, operation)])

\* the in-progress Operation is recorded when both cursors are set
Store(st) ==
    IF Truthy(st.current_path) /\ Truthy(st.current_method)
    THEN PathsSet(st.paths, st.current_path, st.current_method,
                  st.current_operation)
    ELSE st.paths

\* the path marker's branch without current_method = None
OnPathMarkerKeepMethod(st, line_stripped) ==
    [st EXCEPT !.paths = Store(st),
               !.current_path = DropLast(line_stripped),
               !.current_operation = EmptyDict,
               !.in_tags = FALSE,
               !.tags = <<>>]

\* the path marker's branch
OnPathMarker(st, line_stripped) ==
    [st EXCEPT !.paths = Store(st),
               !.current_path = DropLast(line_stripped),
               !.current_method = None,
               !.current_operation = EmptyDict,
               !.in_tags = FALSE,
               !.tags = <<>>]

\* the method marker's branch
OnMethodMarker(st, line_stripped) ==
    [st EXCEPT !.paths = Store(st),
               !.current_method = DropLast(line_stripped),
               !.current_operation = EmptyDict,
               !.in_tags = FALSE,
               !.tags = <<>>]

OnTagsStart(st) == [st EXCEPT !.in_tags = TRUE, !.tags = <<>>]

OnTagItem(st, line_stripped) ==
    [st EXCEPT !.tags = Append(@, Strip(From(line_stripped, 2)))]

\* in_tags = False; current_operation['tags'] = tags
CloseTags(st) ==
    [st EXCEPT !.in_tags = FALSE,
               !.current_operation = Put(@, "tags", st.tags)]

\* the value of a field line: line_stripped[n:].strip().strip('\'"')
FieldValue(line_stripped, n) ==
    StripChars(Strip(From(line_stripped, n)), {"'", "\""})

OnSummary(st, line_stripped) ==
    LET s == IF st.in_tags THEN CloseTags(st) ELSE st
    IN  [s EXCEPT !.current_operation =
                      Put(@, "summary", FieldValue(line_stripped, 8))]

OnDescription(st, line_stripped) ==
    LET s == IF st.in_tags THEN CloseTags(st) ELSE st
    IN  [s EXCEPT !.current_operation =
                      Put(@, "description", FieldValue(line_stripped, 11))]

\* one iteration of the loop over the lines: the if/elif chain in its order
ParseStep(st, line) ==
    LET line_stripped == Strip(line)
    IN  IF IsPathMarker(line_stripped) THEN OnPathMarker(st, line_stripped)
        ELSE IF IsMethodMarker(line_stripped)
             THEN OnMethodMarker(st, line_stripped)
        ELSE IF line_stripped = <<"t","a","g","s",":">> THEN OnTagsStart(st)
        ELSE IF st.in_tags /\ StartsWith(line_stripped, <<"-"," ">>)
             THEN OnTagItem(st, line_stripped)
        ELSE IF /\ Truthy(line_stripped)
                /\ ~StartsWith(line_stripped, <<"-"," ">>)
                /\ ~StartsWith(line_stripped, <<" ">>)
                /\ st.in_tags
             THEN CloseTags(st)
        ELSE IF StartsWith(line_stripped, <<"s","u","m","m","a","r","y",":">>)
             THEN OnSummary(st, line_stripped)
        ELSE IF StartsWith(line_stripped, <<"d","e","s","c","r","i","p","t","i","o","n",":">>)
             THEN OnDescription(st, line_stripped)
        ELSE st

\* after the loop: the last operation, its open tag block committed first
ParseEnd(st) ==
    IF Truthy(st.current_path) /\ Truthy(st.current_method)
    THEN LET s == IF st.in_tags
                  THEN [st EXCEPT !.current_operation = Put(@, "tags", st.tags)]
                  ELSE st
         IN  Store(s)
    ELSE st.paths

ParserState ==
    [current_path |-> current_path, current_method |-> current_method,
     current_operation |-> current_operation, in_tags |-> in_tags,
     tags |-> tags, paths |-> paths]

\* for path, methods in paths.items(): for method, operation in methods.items()
RECURSIVE Items(_)
Items(p) ==
    IF p = <<>> THEN <<>>
    ELSE [i \in DOMAIN p[1].methods |->
            [path |-> p[1].path, method |-> p[1].methods[i].method,
             operation |-> p[1].methods[i].operation]] \o Items(Tail(p))

(***************************************************************************)
(* sanitize_filename                                                       *)
(***************************************************************************)
\* \w of a str pattern: the alphanumeric characters and the underscore.
\* U+0130 is a letter; the combining mark U+0307 is not.
WordChars ==
    Range(AsciiUpper) \cup Range(AsciiLower) \cup Digits \cup {"_", "U+0130"}

\* the range U+4E00-U+9FFF, of which these are named
CjkChars == {"U+4E2D", "U+6587", "U+63A5", "U+53E3"}

\* re.sub(r'[^\wU+4E00-U+9FFF\-]', '-', name)
RECURSIVE ReplaceSpecial(_)
ReplaceSpecial(name) ==
    IF name = <<>> THEN <<>>
    ELSE (IF Head(name) \in WordChars \cup CjkChars \cup {"-"}
          THEN <<Head(name)>> ELSE <<"-">>) \o ReplaceSpecial(Tail(name))

\* re.sub(r'-+', '-', name)
RECURSIVE CollapseHyphens(_)
CollapseHyphens(name) ==
    IF Len(name) < 2 THEN name
    ELSE IF name[1] = "-" /\ name[2] = "-" THEN CollapseHyphens(Tail(name))
    ELSE <<name[1]>> \o CollapseHyphens(Tail(name))

sanitize_filename(name) ==
    Lower(StripChars(CollapseHyphens(ReplaceSpecial(name)), {"-"}))

(***************************************************************************)
(* get_endpoint_category                                                   *)
(***************************************************************************)
\* the 4o test written with a hyphen, 'gpt-4o'
OpenAiCategoryHyphen(main_tag) ==
    IF Contains(main_tag, <<"g","p","t","-","4","o">>) THEN <<"o","p","e","n","a","i","-","g","p","t","4","o">>
    ELSE IF Contains(main_tag, <<"g","p","t">>) \/ Contains(main_tag, <<"r","e","a","s","o","n","i","n","g">>)
         THEN <<"o","p","e","n","a","i","-","g","p","t">>
    ELSE IF Contains(main_tag, <<"a","u","d","i","o">>) THEN <<"o","p","e","n","a","i","-","a","u","d","i","o">>
    ELSE <<"o","p","e","n","a","i">>

\* the branch of an 'openai' tag
OpenAiCategory(main_tag) ==
    IF Contains(main_tag, <<"g","p","t"," ","4","o">>) THEN <<"o","p","e","n","a","i","-","g","p","t","4","o">>
    ELSE IF Contains(main_tag, <<"g","p","t">>) \/ Contains(main_tag, <<"r","e","a","s","o","n","i","n","g">>)
         THEN <<"o","p","e","n","a","i","-","g","p","t">>
    ELSE IF Contains(main_tag, <<"a","u","d","i","o">>) THEN <<"o","p","e","n","a","i","-","a","u","d","i","o">>
    ELSE <<"o","p","e","n","a","i">>

\* the tag rules in their order; None when no rule matches
TagCategory(main_tag) ==
    IF Contains(main_tag, <<"o","p","e","n","a","i">>) THEN OpenAiCategory(main_tag)
    ELSE IF Contains(main_tag, <<"c","l","a","u","d","e">>) THEN <<"c","l","a","u","d","e">>
    ELSE IF Contains(main_tag, <<"g","e","m","i","n","i">>)
         THEN (IF Contains(main_tag, <<"v","e","o","3">>) \/ Contains(main_tag, <<"v","i","d","e","o">>)
               THEN <<"g","e","m","i","n","i","-","v","e","o">> ELSE <<"g","e","m","i","n","i">>)
    ELSE IF Contains(main_tag, <<"g","r","o","k">>) THEN <<"g","r","o","k">>
    ELSE IF Contains(main_tag, <<"m","i","d","j","o","u","r","n","e","y">>) THEN <<"m","i","d","j","o","u","r","n","e","y">>
    ELSE IF Contains(main_tag, <<"s","u","n","o">>) THEN <<"s","u","n","o">>
    ELSE IF Contains(main_tag, <<"k","l","i","n","g">>) THEN <<"k","l","i","n","g">>
    ELSE IF Contains(main_tag, <<"r","u","n","w","a","y">>) THEN <<"r","u","n","w","a","y">>
    ELSE IF Contains(main_tag, <<"i","d","e","o","g","r","a","m">>) THEN <<"i","d","e","o","g","r","a","m">>
    ELSE IF Contains(main_tag, <<"f","l","u","x">>) THEN <<"f","l","u","x">>
    ELSE IF Contains(main_tag, <<"d","o","u","b","a","o">>) THEN <<"d","o","u","b","a","o">>
    ELSE IF Contains(main_tag, <<"h","i","g","g","s","f","i","e","l","d">>) THEN <<"h","i","g","g","s","f","i","e","l","d">>
    ELSE IF Contains(main_tag, <<"q","w","e","n">>) THEN <<"q","w","e","n">>
    ELSE IF Contains(main_tag, <<"m","i","n","i","m","a","x">>) THEN <<"m","i","n","i","m","a","x">>
    ELSE None

\* the path rules in their order
PathCategory(path_lower) ==
    IF Contains(path_lower, <<"/","c","h","a","t","/">>) THEN <<"o","p","e","n","a","i","-","g","p","t">>
    ELSE IF Contains(path_lower, <<"/","i","m","a","g","e","s","/">>) THEN <<"i","m","a","g","e","-","m","o","d","e","l","s">>
    ELSE IF Contains(path_lower, <<"/","a","u","d","i","o","/">>) THEN <<"a","u","d","i","o","-","m","o","d","e","l","s">>
    ELSE IF Contains(path_lower, <<"/","v","e","o","/">>) THEN <<"g","e","m","i","n","i","-","v","e","o">>
    ELSE IF Contains(path_lower, <<"/","m","j","/">>) THEN <<"m","i","d","j","o","u","r","n","e","y">>
    ELSE IF Contains(path_lower, <<"g","e","m","i","n","i">>) THEN <<"g","e","m","i","n","i">>
    ELSE IF Contains(path_lower, <<"/","u","p","l","o","a","d","/">>) \/ Contains(path_lower, <<"/","f","i","l","e","s">>)
         THEN <<"f","i","l","e","-","s","e","r","v","i","c","e","s">>
    ELSE IF Contains(path_lower, <<"/","t","a","s","k">>) THEN <<"t","a","s","k","-","s","e","r","v","i","c","e","s">>
    ELSE <<"o","t","h","e","r">>

get_endpoint_category(path, tag_list) ==
    IF tag_list # <<>> /\ TagCategory(Lower(tag_list[1])) # None
    THEN TagCategory(Lower(tag_list[1]))
    ELSE PathCategory(Lower(path))

(***************************************************************************)
(* generate_endpoint_mdx                                                   *)
(***************************************************************************)
\* the suffix appended to the description for the first tag's vendor
VendorSuffix(tag_list) ==
    IF tag_list = <<>> THEN <<>>
    ELSE LET main_tag == Lower(tag_list[1])
         IN  IF Contains(main_tag, <<"o","p","e","n","a","i">>) THEN <<" ","-"," ","O","p","e","n","A","I"," ","A","P","I","U+517C","U+5BB9","U+63A5","U+53E3">>
             ELSE IF Contains(main_tag, <<"g","e","m","i","n","i">>)
                  THEN <<" ","-"," ","G","o","o","g","l","e"," ","G","e","m","i","n","i","U+6A21","U+578B","U+63A5","U+53E3">>
             ELSE IF Contains(main_tag, <<"m","i","d","j","o","u","r","n","e","y">>)
                  THEN <<" ","-"," ","M","i","d","j","o","u","r","n","e","y","U+56FE","U+50CF","U+751F","U+6210","U+63A5","U+53E3">>
             ELSE IF Contains(main_tag, <<"s","u","n","o">>) THEN <<" ","-"," ","S","u","n","o"," ","A","I","U+97F3","U+4E50","U+751F","U+6210","U+63A5","U+53E3">>
             ELSE <<>>

\* openapi_ref = f'"{method.upper()} {path}"'
OpenApiRef(path, method) == <<"\"">> \o Upper(method) \o <<" ">> \o path \o <<"\"">>

\* the search keywords, a set: tags, the method, the path parts that do not
\* start with 'v', the words of the summary; trimmed, lower-cased, non-empty
SearchKeywords(path, method, summary, tag_list) ==
    LET path_parts == {p \in Range(Pieces(path, {"/"}, <<>>)) :
                           ~StartsWith(p, <<"v">>)}
        candidates == Range(tag_list) \cup {Upper(method)} \cup path_parts
                        \cup Range(Pieces(summary, Whitespace, <<>>))
    IN  {Lower(Strip(kw)) : kw \in {c \in candidates : Strip(c) # <<>>}}

\* the document: the fields of the header and the values the body interpolates
generate_endpoint_mdx(path, method, operation) ==
    LET summary == Get(operation, "summary", Upper(method) \o <<" ">> \o path)
        description == Get(operation, "description",
                           Upper(method) \o <<" ">> \o path \o <<" ","U+63A5","U+53E3">>)
        tag_list == Get(operation, "tags", <<>>)
    IN  [title |-> summary,
         description |-> description \o VendorSuffix(tag_list),
         openapi |-> OpenApiRef(path, method),
         mode |-> <<"w","i","d","e">>,
         keywords |-> SearchKeywords(path, method, summary, tag_list),
         request_method |-> Upper(method),
         request_path |-> path,
         tag_line |-> IF tag_list # <<>> THEN Join(tag_list, <<","," ">>)
                      ELSE <<"U+65E0">>,
         python_call |-> Lower(method)]

(***************************************************************************)
(* generate_navigation_config                                              *)
(***************************************************************************)
category_names ==
    << <<<<"o","p","e","n","a","i">>, <<"O","p","e","n","A","I">>>>,
       <<<<"o","p","e","n","a","i","-","g","p","t">>, <<"O","p","e","n","A","I"," ","G","P","T"," ","S","e","r","i","e","s">>>>,
       <<<<"o","p","e","n","a","i","-","g","p","t","4","o">>, <<"O","p","e","n","A","I"," ","G","P","T","-","4","o">>>>,
       <<<<"o","p","e","n","a","i","-","a","u","d","i","o">>, <<"O","p","e","n","A","I"," ","A","u","d","i","o">>>>,
       <<<<"c","l","a","u","d","e">>, <<"C","l","a","u","d","e">>>>,
       <<<<"g","e","m","i","n","i">>, <<"G","e","m","i","n","i">>>>,
       <<<<"g","e","m","i","n","i","-","v","e","o">>, <<"G","e","m","i","n","i"," ","V","e","o"," ","V","i","d","e","o">>>>,
       <<<<"g","r","o","k">>, <<"G","r","o","k">>>>,
       <<<<"m","i","d","j","o","u","r","n","e","y">>, <<"M","i","d","j","o","u","r","n","e","y">>>>,
       <<<<"s","u","n","o">>, <<"S","u","n","o"," ","M","u","s","i","c">>>>,
       <<<<"k","l","i","n","g">>, <<"K","l","i","n","g"," ","V","i","d","e","o">>>>,
       <<<<"r","u","n","w","a","y">>, <<"R","u","n","w","a","y">>>>,
       <<<<"i","d","e","o","g","r","a","m">>, <<"I","d","e","o","g","r","a","m">>>>,
       <<<<"f","l","u","x">>, <<"F","l","u","x">>>>,
       <<<<"d","o","u","b","a","o">>, <<"D","o","u","b","a","o">>>>,
       <<<<"h","i","g","g","s","f","i","e","l","d">>, <<"H","i","g","g","s","f","i","e","l","d">>>>,
       <<<<"q","w","e","n">>, <<"Q","w","e","n">>>>,
       <<<<"m","i","n","i","m","a","x">>, <<"M","i","n","i","M","a","x">>>>,
       <<<<"i","m","a","g","e","-","m","o","d","e","l","s">>, <<"I","m","a","g","e"," ","G","e","n","e","r","a","t","i","o","n"," ","M","o","d","e","l","s">>>>,
       <<<<"a","u","d","i","o","-","m","o","d","e","l","s">>, <<"A","u","d","i","o"," ","P","r","o","c","e","s","s","i","n","g"," ","M","o","d","e","l","s">>>>,
       <<<<"f","i","l","e","-","s","e","r","v","i","c","e","s">>, <<"F","i","l","e"," ","S","e","r","v","i","c","e","s">>>>,
       <<<<"t","a","s","k","-","s","e","r","v","i","c","e","s">>, <<"T","a","s","k"," ","M","a","n","a","g","e","m","e","n","t">>>>,
       <<<<"o","t","h","e","r">>, <<"O","t","h","e","r"," ","A","P","I","s">>>> >>

\* str.title(): a letter is upper-cased after a non-letter, lower-cased after one
RECURSIVE Title(_, _)
Title(s, after_letter) ==
    IF s = <<>> THEN <<>>
    ELSE LET letter == Head(s) \in Range(AsciiUpper) \cup Range(AsciiLower)
         IN  (IF after_letter THEN LowerChar(Head(s)) ELSE UpperChar(Head(s)))
                \o Title(Tail(s), letter)

\* category_names.get(category, category.title())
GroupName(category) ==
    IF \E i \in DOMAIN category_names : category_names[i][1] = category
    THEN category_names[CHOOSE i \in DOMAIN category_names :
                            category_names[i][1] = category][2]
    ELSE Title(category, FALSE)

\* pages.append(f"api-reference/{category}/{endpoint['filename']}")
PageRef(category, filename) ==
    <<"a","p","i","-","r","e","f","e","r","e","n","c","e","/">> \o category \o <<"/">> \o filename

\* the skip test written as len(endpoints) < 2
RECURSIVE NavigationSkipsSingle(_)
NavigationSkipsSingle(by_category) ==
    IF by_category = <<>> THEN <<>>
    ELSE LET c == by_category[1]
             group == [group |-> GroupName(c.category),
                       pages |-> [i \in DOMAIN c.endpoints |->
                                    PageRef(c.category, c.endpoints[i].filename)]]
         IN  (IF Len(c.endpoints) < 2 THEN <<>> ELSE <<group>>)
                \o NavigationSkipsSingle(Tail(by_category))

\* one group per category in insertion order; a category with no endpoint is skipped
RECURSIVE generate_navigation_config(_)
generate_navigation_config(by_category) ==
    IF by_category = <<>> THEN <<>>
    ELSE LET c == by_category[1]
             group == [group |-> GroupName(c.category),
                       pages |-> [i \in DOMAIN c.endpoints |->
                                    PageRef(c.category, c.endpoints[i].filename)]]
         IN  (IF c.endpoints = <<>> THEN <<>> ELSE <<group>>)
                \o generate_navigation_config(Tail(by_category))

(***************************************************************************)
(* main                                                                    *)
(***************************************************************************)
MethodNames == {<<"g","e","t">>, <<"p","o","s","t">>, <<"p","u","t">>, <<"d","e","l","e","t","e">>, <<"p","a","t","c","h">>}

RECURSIVE Flatten(_)
Flatten(by_category) ==
    IF by_category = <<>> THEN <<>>
    ELSE [i \in DOMAIN by_category[1].endpoints |->
            [category |-> by_category[1].category,
             endpoint |-> by_category[1].endpoints[i]]]
         \o Flatten(Tail(by_category))

\* the filenames of ep_list in endpoints_by_category.values() for ep in ep_list
AssignedFilenames(by_category) ==
    {Flatten(by_category)[i].endpoint.filename :
        i \in DOMAIN Flatten(by_category)}

\* path.replace('/', '-')
ReplaceSlashes(path) == [i \in DOMAIN path |-> IF path[i] = "/" THEN "-" ELSE path[i]]

\* the filename before the collision loop
BaseFilename(path, method, summary) ==
    IF Truthy(sanitize_filename(summary)) THEN sanitize_filename(summary)
    ELSE sanitize_filename(
             method \o <<"-">> \o StripChars(ReplaceSlashes(path), {"-"}))

\* an if where the code has a while: one retry at most
CollisionLoopOnce(filename, base_filename, n, taken) ==
    IF filename \in taken
    THEN [filename |-> base_filename \o <<"-">> \o IntToStr(n), counter |-> n + 1]
    ELSE [filename |-> filename, counter |-> n]

\* the counter incremented before it is used: the first suffix is -2
RECURSIVE CollisionLoopFromTwo(_, _, _, _)
CollisionLoopFromTwo(filename, base_filename, n, taken) ==
    IF filename \in taken
    THEN CollisionLoopFromTwo(base_filename \o <<"-">> \o IntToStr(n + 1),
                              base_filename, n + 1, taken)
    ELSE [filename |-> filename, counter |-> n]

\* while any(ep['filename'] == filename ...): filename = f"{base_filename}-{counter}";
\* counter += 1.  The filename and the counter the loop ends with.
RECURSIVE CollisionLoop(_, _, _, _)
CollisionLoop(filename, base_filename, n, taken) ==
    IF filename \in taken
    THEN CollisionLoop(base_filename \o <<"-">> \o IntToStr(n), base_filename,
                       n + 1, taken)
    ELSE [filename |-> filename, counter |-> n]

\* endpoints_by_category[category].append(endpoint), the category added when new
AppendEndpoint(by_category, category, endpoint) ==
    IF \E i \in DOMAIN by_category : by_category[i].category = category
    THEN [i \in DOMAIN by_category |->
            IF by_category[i].category = category
            THEN [category |-> category,
                  endpoints |-> Append(by_category[i].endpoints, endpoint)]
            ELSE by_category[i]]
    ELSE Append(by_category, [category |-> category, endpoints |-> <<endpoint>>])

\* Path(output_dir) / category / f"{endpoint['filename']}.mdx"
FilePath(category, filename) ==
    <<"a","p","i","-","r","e","f","e","r","e","n","c","e">> \o <<"/">> \o category \o <<"/">> \o filename \o <<".","m","d","x">>

\* open(file_path, 'w').write(mdx_content): the file is created or replaced
WriteFile(fs, file_path, content) ==
    {f \in fs : f.path # file_path} \cup {[path |-> file_path, content |-> content]}

(***************************************************************************)
(* The run                                                                 *)
(***************************************************************************)
InitParser ==
    /\ lines = <<>>
    /\ current_path = None
    /\ current_method = None
    /\ current_operation = EmptyDict
    /\ in_tags = FALSE
    /\ tags = <<>>
    /\ paths = <<>>

InitMainVars ==
    /\ endpoints_by_category = <<>>
    /\ all_categories = {}
    /\ counter = 1
    /\ next_item = 1
    /\ directories = {}
    /\ files = {}
    /\ total_files = 0
    /\ navigation_groups = <<>>

InitCallVars ==
    /\ arg_path = <<>>
    /\ arg_tags = <<>>
    /\ arg_name = <<>>
    /\ result = <<>>
    /\ result2 = <<>>

\* one iteration of the loop over the lines; the line is any line of the pool
ParseLine(pool, max) ==
    /\ pc = "parse"
    /\ Len(lines) < max
    /\ \E line \in pool :
         LET st == ParseStep(ParserState, line)
         IN  /\ lines' = Append(lines, line)
             /\ current_path' = st.current_path
             /\ current_method' = st.current_method
             /\ current_operation' = st.current_operation
             /\ in_tags' = st.in_tags
             /\ tags' = st.tags
             /\ paths' = st.paths
    /\ UNCHANGED <<pc, main_vars, call_vars>>

\* the end of the input: the last operation is recorded and the parser returns
ParseFinish ==
    /\ pc = "parse"
    /\ paths' = ParseEnd(ParserState)
    /\ current_operation' =
          IF Truthy(current_path) /\ Truthy(current_method) /\ in_tags
          THEN Put(current_operation, "tags", tags)
          ELSE current_operation
    /\ pc' = "main"
    /\ UNCHANGED <<lines, current_path, current_method, in_tags, tags,
                   main_vars, call_vars>>

\* one iteration of the endpoint loop of main
MainEndpoint ==
    /\ pc = "main"
    /\ next_item <= Len(Items(paths))
    /\ LET item == Items(paths)[next_item]
           path == item.path
           method == item.method
           operation == item.operation
       IN  IF method \in MethodNames
           THEN LET tag_list == Get(operation, "tags", <<>>)
                    category == get_endpoint_category(path, tag_list)
                    summary == Get(operation, "summary", method \o <<"-">> \o path)
                    base_filename == BaseFilename(path, method, summary)
                    loop == CollisionLoop(base_filename, base_filename, 1,
                                AssignedFilenames(endpoints_by_category))
                IN  /\ all_categories' = all_categories \cup {category}
                    /\ counter' = loop.counter
                    /\ endpoints_by_category' =
                          AppendEndpoint(endpoints_by_category, category,
                              [path |-> path, method |-> method,
                               operation |-> operation,
                               filename |-> loop.filename,
                               summary |-> summary])
           ELSE UNCHANGED <<all_categories, counter, endpoints_by_category>>
    /\ next_item' = next_item + 1
    /\ UNCHANGED <<pc, parse_vars, directories, files, total_files,
                   navigation_groups, call_vars>>

\* create_directory_structure(output_dir, all_categories), after the endpoint loop
CreateDirectories ==
    /\ pc = "main"
    /\ next_item > Len(Items(paths))
    /\ directories' = directories \cup all_categories
    /\ pc' = "write"
    /\ UNCHANGED <<parse_vars, endpoints_by_category, all_categories, counter,
                   next_item, files, total_files, navigation_groups, call_vars>>

\* one iteration of the write loop: the next endpoint's document is written
WriteDoc ==
    /\ pc = "write"
    /\ total_files < Len(Flatten(endpoints_by_category))
    /\ LET e == Flatten(endpoints_by_category)[total_files + 1]
       IN  /\ e.category \in directories
           /\ files' = WriteFile(files,
                          FilePath(e.category, e.endpoint.filename),
                          generate_endpoint_mdx(e.endpoint.path,
                              e.endpoint.method, e.endpoint.operation))
    /\ total_files' = total_files + 1
    /\ UNCHANGED <<pc, parse_vars, endpoints_by_category, all_categories, counter,
                   next_item, directories, navigation_groups, call_vars>>

\* navigation_groups = generate_navigation_config(endpoints_by_category)
NavConfig ==
    /\ pc = "write"
    /\ total_files = Len(Flatten(endpoints_by_category))
    /\ navigation_groups' = generate_navigation_config(endpoints_by_category)
    /\ pc' = "done"
    /\ UNCHANGED <<parse_vars, endpoints_by_category, all_categories, counter,
                   next_item, directories, files, total_files, call_vars>>

(***************************************************************************)
(* The whole run over inputs of path and method markers                    *)
(***************************************************************************)
MaxLines == 5

KeyLines == {<<"/","a",":">>, <<" ","/","A",":">>, <<"g","e","t",":">>, <<" "," ","p","o","s","t",":">>, <<"G","E","T",":">>}

Init == InitParser /\ InitMainVars /\ InitCallVars /\ pc = "parse"

Next ==
    \/ ParseLine(KeyLines, MaxLines)
    \/ ParseFinish
    \/ MainEndpoint
    \/ CreateDirectories
    \/ WriteDoc
    \/ NavConfig

Spec == Init /\ [][Next]_vars

(***************************************************************************)
(* The parser alone over inputs with tag blocks and field lines            *)
(***************************************************************************)
MaxTagLines == 6

TagLines ==
    {<<"/","a",":">>, <<"g","e","t",":">>, <<"p","o","s","t",":">>, <<"t","a","g","s",":">>, <<"-"," ","a">>, <<"-"," ","b">>, <<"d","e","s","c","r","i","p","t","i","o","n",":"," ","\"","V","\"">>}

NextTags == ParseLine(TagLines, MaxTagLines) \/ ParseFinish

SpecTags == Init /\ [][NextTags]_vars

(***************************************************************************)
(* The whole run over the lines of the image-generation scenario           *)
(***************************************************************************)
MaxScenarioLines == 5

ScenarioInput ==
    <<<<"/","v","1","/","i","m","a","g","e","s","/","g","e","n","e","r","a","t","i","o","n","s",":">>, <<"p","o","s","t",":">>, <<"t","a","g","s",":">>, <<"-"," ","M","i","d","j","o","u","r","n","e","y"," ","I","m","a","g","i","n","e">>,
      <<"s","u","m","m","a","r","y",":"," ","G","e","n","e","r","a","t","e"," ","I","m","a","g","e">>>>

NextScenario ==
    \/ ParseLine(Range(ScenarioInput), MaxScenarioLines)
    \/ ParseFinish
    \/ MainEndpoint
    \/ CreateDirectories
    \/ WriteDoc
    \/ NavConfig

SpecScenario == Init /\ [][NextScenario]_vars

(***************************************************************************)
(* main from a parsed Specification                                        *)
(***************************************************************************)
MaxEndpoints == 3

\* the (path, method) pairs in the order the parser records them
KeyPool ==
    << <<<<"/","a">>, <<"g","e","t">>>>, <<<<"/","A">>, <<"g","e","t">>>>, <<<<"/","a">>, <<"p","o","s","t">>>>,
       <<<<"/","m","j","/","b">>, <<"g","e","t">>>>, <<<<"/","m","j","/","b">>, <<"p","o","s","t">>>> >>

\* a summary present or not, a tag list present or not
SummaryPool ==
    {<<FALSE, <<>>>>, <<TRUE, <<>>>>, <<TRUE, <<"G","e","n">>>>, <<TRUE, <<"G","e","n"," ","1">>>>,
     <<TRUE, <<"g","e","t"," ","a">>>>}

TagsPool == {<<FALSE, <<>>>>, <<TRUE, <<<<"S","u","n","o">>>>>>}

MakeOperation(s, t) ==
    LET o == IF t[1] THEN Put(EmptyDict, "tags", t[2]) ELSE EmptyDict
    IN  IF s[1] THEN Put(o, "summary", s[2]) ELSE o

RECURSIVE BuildPaths(_, _, _)
BuildPaths(p, choice, i) ==
    IF i > Len(choice) THEN p
    ELSE BuildPaths(PathsSet(p, KeyPool[i][1], KeyPool[i][2],
                             MakeOperation(choice[i][1], choice[i][2])),
                    choice, i + 1)

InitMain ==
    /\ \E n \in 0..MaxEndpoints :
         /\ n <= Len(KeyPool)
         /\ \E choice \in [1..n -> SummaryPool \X TagsPool] :
              paths = BuildPaths(<<>>, choice, 1)
    /\ lines = <<>>
    /\ current_path = None
    /\ current_method = None
    /\ current_operation = EmptyDict
    /\ in_tags = FALSE
    /\ tags = <<>>
    /\ InitMainVars
    /\ InitCallVars
    /\ pc = "main"

NextMain == MainEndpoint \/ CreateDirectories \/ WriteDoc \/ NavConfig

SpecMain == InitMain /\ [][NextMain]_vars

(***************************************************************************)
(* get_endpoint_category called alone                                      *)
(***************************************************************************)
MaxSegments == 2

Segments ==
    {<<"v","1">>, <<"c","h","a","t">>, <<"i","m","a","g","e","s">>, <<"A","u","d","i","o">>, <<"v","e","o">>, <<"m","j">>, <<"g","e","m","i","n","i">>, <<"u","p","l","o","a","d">>,
     <<"f","i","l","e","s">>, <<"t","a","s","k">>, <<"x">>}

RECURSIVE PathsOfLength(_)
PathsOfLength(n) ==
    IF n = 0 THEN {<<>>}
    ELSE {p \o <<"/">> \o s : p \in PathsOfLength(n - 1), s \in Segments}

PathPool == UNION {PathsOfLength(n) : n \in 1..MaxSegments}

TagListPool ==
    {<<>>, <<<<"O","p","e","n","A","I"," ","G","P","T","-","4","o"," ","S","e","r","i","e","s">>>>, <<<<"O","p","e","n","A","I"," ","G","P","T"," ","4","o"," ","S","e","r","i","e","s">>>>,
     <<<<"M","i","d","j","o","u","r","n","e","y"," ","I","m","a","g","i","n","e">>>>, <<<<"U","n","k","n","o","w","n">>>>,
     <<<<"U","n","k","n","o","w","n">>, <<"O","p","e","n","A","I"," ","G","P","T","-","4","o"," ","S","e","r","i","e","s">>>>}

InitCategory ==
    /\ InitParser
    /\ InitMainVars
    /\ arg_path \in PathPool
    /\ arg_tags \in TagListPool
    /\ arg_name = <<>>
    /\ result = <<>>
    /\ result2 = <<>>
    /\ pc = "call"

Categorize ==
    /\ pc = "call"
    /\ result' = get_endpoint_category(arg_path, arg_tags)
    /\ pc' = "returned"
    /\ UNCHANGED <<parse_vars, main_vars, arg_path, arg_tags, arg_name, result2>>

NextCategory == Categorize

SpecCategory == InitCategory /\ [][NextCategory]_vars

(***************************************************************************)
(* sanitize_filename called alone, then on its own result                  *)
(***************************************************************************)
MaxNameLen == 3

NameChars == {"a", "B", "-", " ", "_", "U+0130"}

NamePool == UNION {[1..n -> NameChars] : n \in 0..MaxNameLen}

InitSanitize ==
    /\ InitParser
    /\ InitMainVars
    /\ arg_path = <<>>
    /\ arg_tags = <<>>
    /\ arg_name \in NamePool
    /\ result = <<>>
    /\ result2 = <<>>
    /\ pc = "call"

SanitizeOnce ==
    /\ pc = "call"
    /\ result' = sanitize_filename(arg_name)
    /\ pc' = "once"
    /\ UNCHANGED <<parse_vars, main_vars, arg_path, arg_tags, arg_name, result2>>

SanitizeAgain ==
    /\ pc = "once"
    /\ result2' = sanitize_filename(result)
    /\ pc' = "twice"
    /\ UNCHANGED <<parse_vars, main_vars, arg_path, arg_tags, arg_name, result>>

NextSanitize == SanitizeOnce \/ SanitizeAgain

SpecSanitize == InitSanitize /\ [][NextSanitize]_vars

(***************************************************************************)
(* Properties                                                              *)
(***************************************************************************)
\* the (path, method) keys of a Specification
KeySet(p) == {<<Items(p)[i].path, Items(p)[i].method>> : i \in DOMAIN Items(p)}

\* line i of the input is a path marker: trimmed, it starts with / and ends with :
PathMarkerAt(ls, i) ==
    LET s == Strip(ls[i]) IN s # <<>> /\ Head(s) = "/" /\ s[Len(s)] = ":"

\* line i of the input is a method marker as the parser reads it
MethodMarkerAt(ls, i) == Strip(ls[i]) \in MethodMarkers

\* the pairs (p, m): a method marker m after a path marker p, no path marker between
ExpectedKeys(ls) ==
    {<<DropLast(Strip(ls[i])), DropLast(Strip(ls[j]))>> :
        <<i, j>> \in {x \in (DOMAIN ls) \X (DOMAIN ls) :
                        /\ x[1] < x[2]
                        /\ PathMarkerAt(ls, x[1])
                        /\ MethodMarkerAt(ls, x[2])
                        /\ \A k \in (x[1] + 1)..(x[2] - 1) : ~PathMarkerAt(ls, k)}}

\* the endpoints main has built, in the order of the categories
Endpoints == Flatten(endpoints_by_category)

\* C4: once the parser has returned, the keys it recorded are exactly the pairs
\* (p, m) of a method marker m under a path marker p in the input, each once;
\* once main's endpoint loop has ended there is exactly one Endpoint per pair.
C4_KeysAreThePairs ==
    /\ pc # "parse" =>
          /\ KeySet(paths) = ExpectedKeys(lines)
          /\ Len(Items(paths)) = Cardinality(ExpectedKeys(lines))
    /\ pc \in {"write", "done"} =>
          /\ Len(Endpoints) = Cardinality(ExpectedKeys(lines))
          /\ \A key \in ExpectedKeys(lines) :
                Cardinality({i \in DOMAIN Endpoints :
                    <<Endpoints[i].endpoint.path,
                      Endpoints[i].endpoint.method>> = key}) = 1

\* C4 witness: a method marker before any path marker, then the pair (/a, get)
\* twice, gives the one Endpoint (/a, get)
C4_Witness ==
    /\ pc = "done"
    /\ lines = <<<<" "," ","p","o","s","t",":">>, <<"/","a",":">>, <<"g","e","t",":">>, <<"/","a",":">>, <<"g","e","t",":">>>>
    /\ Len(Endpoints) = 1
    /\ Endpoints[1].endpoint.method = <<"g","e","t">>

\* the last line consumed
LastLine == lines[Len(lines)]

\* C8 as stated: after a line that is a method marker once lower-cased, read under
\* an open path, the method cursor is the lower-case method name
C8_AnyCaseMarkerSetsMethod ==
    (/\ pc = "parse"
     /\ lines # <<>>
     /\ Truthy(current_path)
     /\ Lower(Strip(LastLine)) \in MethodMarkers)
        => current_method = DropLast(Lower(Strip(LastLine)))

\* C8 amended: the method markers are the five lower-case lines and no other case
\* of them. A lower-case marker sets the method cursor to its name; a line that
\* differs from a marker in case leaves the method cursor and the recorded
\* operations as they were, and no operation is ever recorded under a method
\* that is not one of the five lower-case names.
C8_MarkersAreCaseSensitive ==
    /\ [](\A key \in KeySet(paths) : key[2] \in MethodNames)
    /\ [][(pc = "parse" /\ lines' # lines) =>
            LET line_stripped == Strip(lines'[Len(lines')])
            IN  /\ line_stripped \in MethodMarkers =>
                      current_method' = DropLast(line_stripped)
                /\ (/\ Lower(line_stripped) \in MethodMarkers
                    /\ line_stripped \notin MethodMarkers) =>
                      /\ current_method' = current_method
                      /\ paths' = paths]_vars

\* C8 witness: GET: read under the open path /a leaves the cursor at get
C8_Witness ==
    /\ pc = "parse"
    /\ lines = <<<<"/","a",":">>, <<"g","e","t",":">>, <<"G","E","T",":">>>>
    /\ current_path = <<"/","a">>
    /\ current_method = <<"g","e","t">>

\* the Operation recorded under (path, method)
OperationAt(p, path, method) ==
    (CHOOSE it \in Range(Items(p)) : it.path = path /\ it.method = method).operation

\* a tag block with the items a and b under the operation (/a, get)
TagBlockInput == <<<<"/","a",":">>, <<"g","e","t",":">>, <<"t","a","g","s",":">>, <<"-"," ","a">>, <<"-"," ","b">>>>

\* what may end the block: a field line, a method marker, a path marker
TagBlockEnders == {<<"d","e","s","c","r","i","p","t","i","o","n",":"," ","\"","V","\"">>, <<"p","o","s","t",":">>, <<"/","a",":">>}

\* C3 as stated: the tag block a, b of the operation (/a, get), ended by a field
\* line, a method marker, a path marker or the end of the input, is recorded as
\* the tags [a, b] of that operation
C3_TagsLossless ==
    (/\ pc = "main"
     /\ Len(lines) \in {5, 6}
     /\ SubSeq(lines, 1, 5) = TagBlockInput
     /\ Len(lines) = 6 => lines[6] \in TagBlockEnders)
        => /\ <<<<"/","a">>, <<"g","e","t">>>> \in KeySet(paths)
           /\ Get(OperationAt(paths, <<"/","a">>, <<"g","e","t">>), "tags", None)
                 = <<<<"a">>, <<"b">>>>

\* C9 as stated: a description line read while an operation is in progress and no
\* tag block is open stores the text after the keyword and its colon, trimmed and
\* unquoted: V for the line description: "V"
C9_DescriptionValue ==
    [][(/\ pc = "parse"
        /\ lines' = Append(lines, <<"d","e","s","c","r","i","p","t","i","o","n",":"," ","\"","V","\"">>)
        /\ Truthy(current_path)
        /\ Truthy(current_method)
        /\ ~in_tags)
          => Get(current_operation', "description", None) = <<"V">>]_vars

\* C1 as stated: the scenario's five lines give one endpoint, of category
\* midjourney and filename generate-image, and one document whose openapi field
\* is "POST /v1/images/generations"
C1_Scenario ==
    (pc = "done" /\ lines = ScenarioInput)
        => /\ Len(Endpoints) = 1
           /\ Endpoints[1].category = <<"m","i","d","j","o","u","r","n","e","y">>
           /\ Endpoints[1].endpoint.filename = <<"g","e","n","e","r","a","t","e","-","i","m","a","g","e">>
           /\ Cardinality(files) = 1
           /\ \A f \in files :
                 f.content.openapi = <<"\"","P","O","S","T"," ","/","v","1","/","i","m","a","g","e","s","/","g","e","n","e","r","a","t","i","o","n","s","\"">>

\* C2 as stated: the tag list ["OpenAI GPT-4o Series"] gives openai-gpt4o on
\* every path
C2_Gpt4oTag ==
    (pc = "returned" /\ arg_tags = <<<<"O","p","e","n","A","I"," ","G","P","T","-","4","o"," ","S","e","r","i","e","s">>>>)
        => result = <<"o","p","e","n","a","i","-","g","p","t","4","o">>

\* C2 amended: the tag decides before the path does, and on every path the tag
\* list ["OpenAI GPT-4o Series"] gives openai-gpt: lower-cased, the tag holds
\* 'gpt' but not 'gpt 4o'. The tag "OpenAI GPT 4o Series", written with a space,
\* gives openai-gpt4o on every path.
C2_TagFirst ==
    /\ (pc = "returned" /\ arg_tags = <<<<"O","p","e","n","A","I"," ","G","P","T","-","4","o"," ","S","e","r","i","e","s">>>>)
          => result = <<"o","p","e","n","a","i","-","g","p","t">>
    /\ (pc = "returned" /\ arg_tags = <<<<"O","p","e","n","A","I"," ","G","P","T"," ","4","o"," ","S","e","r","i","e","s">>>>)
          => result = <<"o","p","e","n","a","i","-","g","p","t","4","o">>

\* C2 witness: the tag decides on a path whose own rule is image-models
C2_Witness ==
    /\ pc = "returned"
    /\ arg_tags = <<<<"O","p","e","n","A","I"," ","G","P","T","-","4","o"," ","S","e","r","i","e","s">>>>
    /\ arg_path = <<"/","i","m","a","g","e","s","/","x">>
    /\ PathCategory(Lower(arg_path)) = <<"i","m","a","g","e","-","m","o","d","e","l","s">>
    /\ result = <<"o","p","e","n","a","i","-","g","p","t">>

\* C7 as stated: sanitizing a sanitized name changes nothing, and a sanitized
\* name has no two hyphens in a row, no hyphen at either end and no upper case
C7_Idempotent ==
    pc = "twice" =>
        /\ result2 = result
        /\ ~Contains(result, <<"-","-">>)
        /\ result # <<>> => (Head(result) # "-" /\ result[Len(result)] # "-")
        /\ Lower(result) = result

(***************************************************************************)
(* Properties of the endpoint loop, stated on the order of processing      *)
(***************************************************************************)
\* the filename of the endpoint built for the i-th (path, method) item
NameOf(i) ==
    (CHOOSE e \in Range(Endpoints) :
        /\ e.endpoint.path = Items(paths)[i].path
        /\ e.endpoint.method = Items(paths)[i].method).endpoint.filename

\* the name the i-th item sanitizes to
BaseOf(i) ==
    LET it == Items(paths)[i]
    IN  BaseFilename(it.path, it.method,
                     Get(it.operation, "summary", it.method \o <<"-">> \o it.path))

\* the filenames, and the base names, in the order of processing
RECURSIVE NamesUpTo(_)
NamesUpTo(n) == IF n = 0 THEN <<>> ELSE Append(NamesUpTo(n - 1), NameOf(n))

RECURSIVE BasesUpTo(_)
BasesUpTo(n) == IF n = 0 THEN <<>> ELSE Append(BasesUpTo(n - 1), BaseOf(n))

Suffixed(base, k) == base \o <<"-">> \o IntToStr(k)

\* C5 as stated: at the end of the run, of exactly two endpoints with the base
\* name B the earlier is named B and the later B-1, whatever other endpoints are
\* processed
C5_SecondGetsSuffixOne ==
    pc = "done" =>
        LET name == NamesUpTo(Len(Items(paths)))
            base == BasesUpTo(Len(Items(paths)))
        IN  \A i, j \in DOMAIN base :
                (i < j /\ {k \in DOMAIN base : base[k] = base[i]} = {i, j}) =>
                    /\ name[i] = base[i]
                    /\ name[j] = Suffixed(base[i], 1)

\* C5 amended: at the end of the run, of exactly two endpoints with the base name
\* B the earlier is named B and the later B-1, also when endpoints with other base
\* names are processed before or between them, unless an endpoint processed
\* earlier already holds the name B or B-1 (one whose base name is itself B-1,
\* say). In every case an endpoint is named B when B is free, and else B-k for
\* the least k >= 1 with B-k free.
C5_NextFreeSuffix ==
    pc = "done" =>
        LET name == NamesUpTo(Len(Items(paths)))
            base == BasesUpTo(Len(Items(paths)))
            before(i) == {name[k] : k \in 1..(i - 1)}
        IN  /\ \A i, j \in DOMAIN base :
                  (i < j /\ {k \in DOMAIN base : base[k] = base[i]} = {i, j}) =>
                      /\ base[i] \notin before(i) => name[i] = base[i]
                      /\ (/\ base[i] \notin before(i)
                          /\ Suffixed(base[i], 1) \notin before(j))
                            => name[j] = Suffixed(base[i], 1)
            /\ \A j \in DOMAIN base :
                  IF base[j] \notin before(j) THEN name[j] = base[j]
                  ELSE \E k \in 1..Len(base) :
                          /\ name[j] = Suffixed(base[j], k)
                          /\ name[j] \notin before(j)
                          /\ \A m \in 1..(k - 1) :
                                Suffixed(base[j], m) \in before(j)

\* C5 witness: two endpoints with one base name, named B and B-1, and an endpoint
\* with another base name processed before the later of them
C5_Witness ==
    /\ pc = "done"
    /\ LET name == NamesUpTo(Len(Items(paths)))
           base == BasesUpTo(Len(Items(paths)))
       IN  \E i, j, k \in DOMAIN base :
              /\ i < j /\ k < j /\ k # i
              /\ {n \in DOMAIN base : base[n] = base[i]} = {i, j}
              /\ name[i] = base[i]
              /\ name[j] = Suffixed(base[i], 1)

RECURSIVE PageCount(_)
PageCount(groups) ==
    IF groups = <<>> THEN 0 ELSE Len(groups[1].pages) + PageCount(Tail(groups))

\* C6: at the end of the run the page references of the manifest are as many as
\* the files written, one file and one page reference for each endpoint and one
\* endpoint for each (path, method) of the Specification
C6_PagesMatchDocuments ==
    pc = "done" =>
        /\ PageCount(navigation_groups) = Cardinality(files)
        /\ Cardinality(files) = total_files
        /\ total_files = Len(Endpoints)
        /\ Len(Endpoints) = Len(Items(paths))
        /\ \A i \in DOMAIN Endpoints :
              /\ \E g \in Range(navigation_groups) :
                    PageRef(Endpoints[i].category, Endpoints[i].endpoint.filename)
                        \in Range(g.pages)
              /\ \E f \in files :
                    f.path = FilePath(Endpoints[i].category,
                                      Endpoints[i].endpoint.filename)

\* C6 witness: three documents in two groups
C6_Witness ==
    /\ pc = "done"
    /\ Len(navigation_groups) = 2
    /\ Cardinality(files) = 3
    /\ PageCount(navigation_groups) = 3

\* C10: during and after the endpoint loop every filename is non-empty, no two
\* endpoints of any categories share a filename or an output path, and the
\* collision loop ended within as many rounds as there were names assigned
C10_FilenamesDistinct ==
    pc \in {"main", "write", "done"} =>
        LET eps == Endpoints
            file_path == [i \in DOMAIN eps |->
                            FilePath(eps[i].category, eps[i].endpoint.filename)]
        IN  /\ \A i \in DOMAIN eps : eps[i].endpoint.filename # <<>>
            /\ \A i, j \in DOMAIN eps :
                  i < j =>
                    /\ eps[i].endpoint.filename # eps[j].endpoint.filename
                    /\ file_path[i] # file_path[j]
            /\ counter >= 1
            /\ counter <= IF eps = <<>> THEN 1 ELSE Len(eps)

\* C10 witness: three endpoints of one base name in two categories; the loop of
\* the third went round twice
C10_Witness ==
    /\ pc = "done"
    /\ Len(Endpoints) = 3
    /\ Len(endpoints_by_category) = 2
    /\ \A i \in DOMAIN Items(paths) : BaseOf(i) = BaseOf(1)
    /\ counter = 3
====
